---- MODULE Spec2Model ----
(***************************************************************************)
(* Pulse-sequence compiler and sweep controller of the NV-centre           *)
(* experiment scripts (src/Other/experiments/t1_experiment.py, t1.py and   *)
(* src/Other/main_gui.py).                                                 *)
(*                                                                         *)
(* Times are floats in the Python code.  They are modelled as integers:    *)
(* the arguments in the unit the caller passes (ms, us), the emitted       *)
(* instruction lengths in the unit the code hands to pb_inst_pbonly.       *)
(***************************************************************************)
EXTENDS Integers, Sequences, FiniteSets, TLC

\* ------------------------------------------------------------------ bounds

\* tref_ms ranges over 1..MaxTrefMs
MaxTrefMs == 2
\* pulse widths and tau range over {0, 250, ..., 250 * MaxWidthK} microseconds
MaxWidthK == 2
\* points ranges over 1..MaxPoints, loops over 1..MaxLoops
MaxPoints == 3
MaxLoops == 2

\* ------------------------------------------------------------------ state

VARIABLES
    \* --- sequencer (PulseBlaster) as driven through spinapi ---
    pbProgram,     \* instructions of the program loaded last (pb_inst_pbonly calls)
    pbOpen,        \* the board is initialised (pb_init) and not yet closed (pb_close)
    pbRunning,     \* the loaded program is running (pb_start .. pb_stop / pb_reset)
    \* --- the last _program_three_pulse_sequence call ---
    compiler,      \* which file's _program_three_pulse_sequence it was
    lastArgs,      \* its arguments
    raised,        \* "none" | "ValueError": how it ended ("idle" before any)
    loaded,        \* history: every (arguments, program on the board) a call has left
    \* --- lock-in (SR830) as driven through pyvisa ---
    rmOpen,        \* the VISA resource manager is open
    liOpen,        \* the instrument session is open
    \* --- run() of t1_experiment.py, called by Worker.run of main_gui.py ---
    params,        \* keyword arguments of run
    pc,            \* the statement the worker thread executes next
    i,             \* index of the for loop (0-based, as enumerate counts)
    loop_counter,
    Rvals,
    R,             \* the value read last: the tau (us) of the program that was running
    exc,           \* the exception propagating out of run ("none" when there is none)
    interruptionRequested,   \* QThread's interruption flag of the worker
    delivered,     \* the signal Worker.run emitted: "none" | "finished" | "error"
    result,        \* the dict run returned
    tau_LI_s,      \* what init_sr830 returned for the time constant: << ticks of 10 us >>, or << >> for None
    wait_s,        \* the settle wait of line 48, in ticks of 10 us
    messages,      \* the line= texts passed to emit, in order
    \* --- history, for stating the properties ---
    pointCalls,    \* Sequencer and Instrument calls made for the current point
    cleanupCalls,  \* calls attempted by the finally block, in order
    cleanupFault,  \* a call of the finally block raised
    recordedAtCancel,  \* Len(Rvals) when interruption was first requested, -1 before
    cancelSeen,    \* a poll of line 66 has found the interruption flag set
    slept,         \* duration of the last time.sleep of line 75, in ticks of 10 us
    excAtFinally,  \* the exception pending when the finally block was entered
    \* --- the window of main_gui.py: one ExperimentTab per experiment ---
    usedTabs,      \* the tabs the user works with
    tab,           \* per tab: btn_run and btn_stop enabled, worker (0: None, else the
                   \* n-th Worker the tab created), status_lbl
    thread,        \* per tab, its worker's thread: pc, interruption flag, run's points,
                   \* loop index i, values recorded n, exception exc, hardware in use
    queued,        \* per tab: the finished/error signal emitted and not yet handled
    stopClicked,   \* per tab, history: the workers (by number) during which Stop was clicked
    msgs,          \* per tab: the message signals emitted and not yet handled
    drawing,       \* the tab whose canvas.draw() the interface thread is in, or "none"
    driver,        \* which of the three qudi SR830 modules is activated ("none": none)
    statusvar,     \* its attribute statusvar: << >> while never assigned, else << n >>
    configured,    \* piglet's _configured
    module_state,  \* qudi's module_state(): "idle" or "locked"
    thread_lock,   \* _thread_lock is held
    device,        \* the SR830: storing (a scan is running), spts (points in its buffer)
    call,          \* the driver call in progress: op, pc, frame / number_of_samples
    sent,          \* the commands the latest call has written to the device
    ret,           \* how the latest call ended: op, returned value val, exception exc,
                   \* and for a returned mapping its keys
    active_channels, \* _active_channels
    sample_rate,   \* _sample_rate, in sixteenths of a hertz
    frame_size,    \* _frame_size, which piglet's _record_samples always equals
    other          \* a second thread that calls the module: "idle", or "asked" while
                   \* it holds _thread_lock with a query written and the reply not read

compileVars == <<pbProgram, compiler, lastArgs, raised, loaded>>

hwVars == <<pbOpen, pbRunning, rmOpen, liOpen>>

runVars == <<params, pc, i, loop_counter, Rvals, R, exc, interruptionRequested,
             delivered, result>>

runVarsButPc == <<params, i, loop_counter, Rvals, R, exc, interruptionRequested,
                  delivered, result>>

histVars == <<pointCalls, cleanupCalls, cleanupFault, recordedAtCancel>>

settleVars == <<tau_LI_s, wait_s>>

\* everything of the sweep of t1_experiment.py and of its compiler
sweepVars == <<compileVars, hwVars, runVars, histVars, settleVars, messages, cancelSeen,
               slept, excAtFinally>>

\* the state of the other parts of the repository
guiVars == <<usedTabs, tab, thread, queued, stopClicked, msgs, drawing>>

driverVars == <<driver, statusvar, configured, module_state, thread_lock, device, call,
                sent, ret, active_channels, sample_rate, frame_size, other>>

outsideSweep == <<guiVars, driverVars>>

vars == <<sweepVars, outsideSweep>>

\* ------------------------------------------------------------------ helpers

Max(a, b) == IF a >= b THEN a ELSE b

RECURSIVE Pow2(_)
Pow2(n) == IF n = 0 THEN 1 ELSE 2 * Pow2(n - 1)

\* Python's a << n on non-negative ints
Shl(a, n) == a * Pow2(n)

\* Python's a | b on non-negative ints
RECURSIVE BitOr(_, _)
BitOr(a, b) ==
    IF a = 0 THEN b
    ELSE IF b = 0 THEN a
    ELSE (IF a % 2 = 1 \/ b % 2 = 1 THEN 1 ELSE 0) + 2 * BitOr(a \div 2, b \div 2)

\* whether the bits of mask m are all set in flags f
RECURSIVE HasBits(_, _)
HasBits(f, m) ==
    IF m = 0 THEN TRUE
    ELSE (m % 2 = 1 => f % 2 = 1) /\ HasBits(f \div 2, m \div 2)

RECURSIVE SumLen(_)
SumLen(s) == IF s = <<>> THEN 0 ELSE Head(s).length + SumLen(Tail(s))

\* ------------------------------------------------------------------ channels

\* t1_experiment.py
CH_REF == Shl(1, 0)
CH_LASER == Shl(1, 1)
\* t1.py
T1_CH_LASER == Shl(1, 0)
T1_CH_REF == Shl(1, 1)

\* one pb_inst_pbonly(flags, inst, inst_data, length) call
Inst(flags, inst, inst_data, length) ==
    [flags |-> flags, inst |-> inst, inst_data |-> inst_data, length |-> length]

\* ------------------------------------------------------------------ compiler
\* _program_three_pulse_sequence of t1_experiment.py, in nanoseconds

HalfNs(tref_ms) == (tref_ms * 1000000) \div 2

UsToNs(us) == us * 1000

\* lines 26-29: the two checks; TRUE when the call raises ValueError
Rejects(half, init, second, tau, read) ==
    \/ init > half
    \/ second + tau + read > half

\* FirstHalf with the two pb_inst_pbonly calls in the other order
FirstHalfBaselineFirst(init_ns, high_base_ns) ==
    << Inst(CH_REF, "CONTINUE", 0, high_base_ns),
       Inst(BitOr(CH_REF, CH_LASER), "CONTINUE", 0, init_ns) >>

\* lines 35-36: the reference-high half
FirstHalf(init_ns, high_base_ns) ==
    << Inst(BitOr(CH_REF, CH_LASER), "CONTINUE", 0, init_ns),
       Inst(CH_REF, "CONTINUE", 0, high_base_ns) >>

\* DelayStep without the tau > 0 test
DelayStepAlways(tau_ns) ==
    << Inst(0, "CONTINUE", 0, tau_ns) >>

\* lines 38-39: the dark delay, only when tau > 0
DelayStep(tau_ns) ==
    IF tau_ns > 0 THEN << Inst(0, "CONTINUE", 0, tau_ns) >> ELSE << >>

\* FillerStep with CONTINUE for BRANCH
FillerStepContinue(low_after_read_ns) ==
    Inst(0, "CONTINUE", 0, Max(1, low_after_read_ns))

\* line 41: the remainder of the second half, branching to instruction 0
FillerStep(low_after_read_ns) ==
    Inst(0, "BRANCH", 0, Max(1, low_after_read_ns))

\* lines 37-41: the reference-low half
SecondHalf(second_ns, tau_ns, read_ns, low_after_read_ns) ==
    << Inst(CH_LASER, "CONTINUE", 0, second_ns) >>
    \o DelayStep(tau_ns)
    \o << Inst(CH_LASER, "CONTINUE", 0, read_ns),
          FillerStep(low_after_read_ns) >>

\* ProgramThreePulse with the second check made only after pb_start_programming
ProgramThreePulseLateCheck(tau_us, tref_ms, init_us, second_us, read_us) ==
    LET half_ns   == HalfNs(tref_ms)
        init_ns   == UsToNs(init_us)
        second_ns == UsToNs(second_us)
        read_ns   == UsToNs(read_us)
        tau_ns    == UsToNs(tau_us)
    IN  IF init_ns > half_ns
        THEN [raised |-> "ValueError", calls |-> << >>, steps |-> << >>]
        ELSE IF second_ns + tau_ns + read_ns > half_ns
        THEN [raised |-> "ValueError", calls |-> << "pb_start_programming" >>, steps |-> << >>]
        ELSE LET high_base_ns      == half_ns - init_ns
                 low_after_read_ns == half_ns - (second_ns + tau_ns + read_ns)
                 steps == FirstHalf(init_ns, high_base_ns)
                          \o SecondHalf(second_ns, tau_ns, read_ns, low_after_read_ns)
             IN  [raised |-> "none",
                  calls  |-> << "pb_start_programming" >>
                             \o [k \in 1..Len(steps) |-> "pb_inst_pbonly"]
                             \o << "pb_stop_programming" >>,
                  steps  |-> steps]

\* The call's effect: the exception it raises ("none" when it returns), the
\* Sequencer calls it made and the instructions it loaded.
ProgramThreePulse(tau_us, tref_ms, init_us, second_us, read_us) ==
    LET half_ns   == HalfNs(tref_ms)
        init_ns   == UsToNs(init_us)
        second_ns == UsToNs(second_us)
        read_ns   == UsToNs(read_us)
        tau_ns    == UsToNs(tau_us)
    IN  IF Rejects(half_ns, init_ns, second_ns, tau_ns, read_ns)
        THEN [raised |-> "ValueError", calls |-> << >>, steps |-> << >>]
        ELSE LET high_base_ns      == half_ns - init_ns
                 low_after_read_ns == half_ns - (second_ns + tau_ns + read_ns)
                 steps == FirstHalf(init_ns, high_base_ns)
                          \o SecondHalf(second_ns, tau_ns, read_ns, low_after_read_ns)
             IN  [raised |-> "none",
                  calls  |-> << "pb_start_programming" >>
                             \o [k \in 1..Len(steps) |-> "pb_inst_pbonly"]
                             \o << "pb_stop_programming" >>,
                  steps  |-> steps]

\* _program_three_pulse_sequence of t1.py: same checks, in microseconds, the
\* baseline before the init pulse
HalfUs(tref_ms) == (tref_ms * 1000) \div 2

T1FirstHalf(init_us, high_base_us) ==
    << Inst(T1_CH_REF, "CONTINUE", 0, high_base_us),
       Inst(BitOr(T1_CH_REF, T1_CH_LASER), "CONTINUE", 0, init_us) >>

T1SecondHalf(second_us, tau_us, read_us, low_after_read_us) ==
    << Inst(T1_CH_LASER, "CONTINUE", 0, second_us) >>
    \o (IF tau_us > 0 THEN << Inst(0, "CONTINUE", 0, tau_us) >> ELSE << >>)
    \o << Inst(T1_CH_LASER, "CONTINUE", 0, read_us),
          Inst(0, "BRANCH", 0, Max(1, low_after_read_us)) >>

T1ProgramThreePulse(tau_us, tref_ms, init_us, second_us, read_us) ==
    LET half_us == HalfUs(tref_ms)
    IN  IF Rejects(half_us, init_us, second_us, tau_us, read_us)
        THEN [raised |-> "ValueError", calls |-> << >>, steps |-> << >>]
        ELSE LET high_base_us      == half_us - init_us
                 low_after_read_us == half_us - (second_us + tau_us + read_us)
                 steps == T1FirstHalf(init_us, high_base_us)
                          \o T1SecondHalf(second_us, tau_us, read_us, low_after_read_us)
             IN  [raised |-> "none",
                  calls  |-> << "pb_start_programming" >>
                             \o [k \in 1..Len(steps) |-> "pb_inst_pbonly"]
                             \o << "pb_stop_programming" >>,
                  steps  |-> steps]

\* ------------------------------------------------------------------ inputs

TrefMsVals == 1..MaxTrefMs
WidthUsVals == {250 * k : k \in 0..MaxWidthK}

ArgVals ==
    [tau_us : WidthUsVals, tref_ms : TrefMsVals, init_us : WidthUsVals,
     second_us : WidthUsVals, read_us : WidthUsVals]

NoArgs == [tau_us |-> 0, tref_ms |-> 0, init_us |-> 0, second_us |-> 0, read_us |-> 0]

NoParams ==
    [tref_ms |-> 0, init_us |-> 0, second_us |-> 0, read_us |-> 0,
     max_tau_us |-> 0, points |-> 0, loops |-> 0]

NoResult == [tau_s |-> << >>, R_V |-> << >>]

\* no worker has been started: the hardware is closed and run has not been called
\* NVGui.__init__ (main_gui.py lines 225-229): the tabs and the runner of each
AllTabs == {"T1", "ODMR", "Pulsed ODMR", "Ramsey", "T2"}

Runner(t) ==
    CASE t = "T1"          -> "t1_experiment"
      [] t = "ODMR"        -> "odmr_experiment"
      [] t = "Pulsed ODMR" -> "pulsed_odmr"
      [] t = "Ramsey"      -> "ramsey_experiment"
      [] t = "T2"          -> "t2_experiment"

\* a tab as ExperimentTab.__init__ leaves it (lines 82-98): Run enabled, Stop
\* disabled, no worker, status "Idle"
NewTab == [btn_run |-> TRUE, btn_stop |-> FALSE, worker |-> 0, status_lbl |-> "Idle"]

NoThread == [pc |-> "none", flag |-> FALSE, points |-> 0, i |-> 0, n |-> 0,
             exc |-> "none", driving |-> FALSE]

\* the window is not part of the behaviour
NoCall == [op |-> "none", pc |-> "idle", n |-> << >>]

NoRet == [op |-> "none", val |-> << >>, exc |-> "none", keys |-> {}]

\* no qudi module of the lock-in is activated
DriverNotLoaded ==
    /\ driver = "none"
    /\ statusvar = << >>
    /\ configured = FALSE
    /\ module_state = "idle"
    /\ thread_lock = FALSE
    /\ device = [storing |-> FALSE, spts |-> 0]
    /\ call = NoCall
    /\ sent = << >>
    /\ ret = NoRet
    /\ active_channels = {}
    /\ sample_rate = 0
    /\ frame_size = 0
    /\ other = "idle"

GuiNotShown ==
    /\ usedTabs = {}
    /\ tab = [t \in AllTabs |-> NewTab]
    /\ thread = [t \in AllTabs |-> NoThread]
    /\ queued = [t \in AllTabs |-> "none"]
    /\ stopClicked = [t \in AllTabs |-> {}]
    /\ msgs = [t \in AllTabs |-> 0]
    /\ drawing = "none"

RunNotStarted ==
    /\ pbOpen = FALSE /\ pbRunning = FALSE /\ rmOpen = FALSE /\ liOpen = FALSE
    /\ params = NoParams
    /\ pc = "not_started"
    /\ i = 0 /\ loop_counter = 0 /\ Rvals = << >> /\ R = -1
    /\ exc = "none"
    /\ interruptionRequested = FALSE
    /\ delivered = "none"
    /\ result = NoResult
    /\ pointCalls = << >> /\ cleanupCalls = << >> /\ cleanupFault = FALSE
    /\ recordedAtCancel = -1
    /\ tau_LI_s = << >> /\ wait_s = 0 /\ messages = << >>
    /\ cancelSeen = FALSE /\ slept = 0 /\ excAtFinally = "unset"

\* ------------------------------------------------------------------ compiler specification

\* the arguments of the call are drawn here; the call has not been made yet
InitCompile ==
    /\ pbProgram = << >>
    /\ compiler = "none"
    /\ lastArgs \in ArgVals
    /\ raised = "idle"
    /\ loaded = {}
    /\ RunNotStarted
    /\ GuiNotShown
    /\ DriverNotLoaded

\* the call of t1_experiment.py's _program_three_pulse_sequence on lastArgs:
\* a rejected call loads nothing
Compile ==
    /\ raised = "idle"
    /\ LET a == lastArgs
           r == ProgramThreePulse(a.tau_us, a.tref_ms, a.init_us, a.second_us, a.read_us)
       IN  /\ raised' = r.raised
           /\ compiler' = "t1_experiment"
           /\ pbProgram' = r.steps
    /\ UNCHANGED <<lastArgs, loaded, hwVars, runVars, histVars, settleVars, messages,
                   cancelSeen, slept, excAtFinally>>
    /\ UNCHANGED outsideSweep

\* the call of t1.py's _program_three_pulse_sequence on lastArgs
CompileT1 ==
    /\ raised = "idle"
    /\ LET a == lastArgs
           r == T1ProgramThreePulse(a.tau_us, a.tref_ms, a.init_us, a.second_us, a.read_us)
       IN  /\ raised' = r.raised
           /\ compiler' = "t1"
           /\ pbProgram' = r.steps
    /\ UNCHANGED <<lastArgs, loaded, hwVars, runVars, histVars, settleVars, messages,
                   cancelSeen, slept, excAtFinally>>
    /\ UNCHANGED outsideSweep

NextCompile == Compile \/ CompileT1

SpecCompile == InitCompile /\ [][NextCompile]_vars

\* ------------------------------------------------------------------ sweep controller
\* run() of t1_experiment.py (lines 44-91) on the worker thread of main_gui.py

\* defaults of run's keyword arguments
DefaultInitUs == 20
DefaultSecondUs == 20
DefaultReadUs == 20
\* first tau of the sweep
TauStartUs == 10

\* np.linspace(start, stop, n): n evenly spaced values from start to stop
\* (the float quotient is taken as the integer quotient)
Linspace(start, stop, n) ==
    IF n = 1 THEN << start >>
    ELSE [k \in 1..n |-> start + ((k - 1) * (stop - start)) \div (n - 1)]

\* taus_us of the run
Taus == Linspace(TauStartUs, params.max_tau_us, params.points)

ParamVals ==
    [tref_ms : TrefMsVals, init_us : {DefaultInitUs}, second_us : {DefaultSecondUs},
     read_us : {DefaultReadUs}, max_tau_us : {TauStartUs + w : w \in WidthUsVals},
     points : 1..MaxPoints, loops : 1..MaxLoops]

PbCleanup == << "pb_stop", "pb_reset", "pb_close" >>
LiCleanup == << "li.close", "rm.close" >>

Range(f) == {f[k] : k \in DOMAIN f}

\* Settle times are counted in ticks of 10 microseconds, the smallest time
\* constant of the lock-in, so that 10 * 300 s stays within TLC's integers.
\* TC_TABLE of sr830_control.py: the time constant, in ticks, of the indices
\* 0..15 the lock-in answers to OFLT? (position k + 1 holds index k)
TC_TABLE ==
    << 1, 3, 10, 30, 100, 300, 1000, 3000, 10000, 30000,
       100000, 300000, 1000000, 3000000, 10000000, 30000000 >>

\* The indices the lock-in may answer to OFLT?. An SR830 has the indices 0..19
\* (_TC_TABLE of t1.py lists them); the model draws the smallest (0), the 10 ms
\* one (6), the two around the point where 10 * tc passes 1 s (8, 9), the last
\* one TC_TABLE lists (15), and the first and last it does not list (16, 19).
OfltVals == {0, 6, 8, 9, 15, 16, 19}

\* TC_TABLE.get(tc): << v >> for a listed index, << >> (None) for any other
TcGet(tc) == IF tc + 1 \in DOMAIN TC_TABLE THEN << TC_TABLE[tc + 1] >> ELSE << >>

\* line 48 of t1_experiment.py: the 1 and the 10 of max(1, 10 * tau_LI_s)
\* (1 s = 100000 ticks)
SettleFloor == 100000
SettleFactor == 10

WaitSMin(tc) == IF SettleFloor <= SettleFactor * tc THEN SettleFloor ELSE SettleFactor * tc

\* line 75 of t1.py: wait_s = max(0.02, SETTLE_FACTOR * tau_LI_s), in ticks
\* (0.02 s = 2000 ticks)
T1SettleFloor == 2000
T1SettleFactor == 5
T1WaitS(tc) == Max(T1SettleFloor, T1SettleFactor * tc)

\* line 48: wait_s = max(1, 10 * tau_LI_s), in ticks
WaitS(tc) == Max(SettleFloor, SettleFactor * tc)

EmitNothing(log) == log

\* line 67: emit(line="Interrupted by user.")
EmitInterrupted(log) == Append(log, [line |-> "Interrupted by user.", point |-> 0])

\* line 82: emit(line=f"tau -> R", status=f"Point {i+1}/{N}", progress=...)
EmitPoint(log, k) == Append(log, [line |-> "point", point |-> k])

\* an exception leaves the try block: the finally block runs next
RaiseInTry(e) ==
    /\ exc' = e
    /\ pc' = "finally_pb"

\* Worker.start(): the worker thread is about to call run(ax, emit, **params)
Init ==
    /\ pbProgram = << >> /\ pbOpen = FALSE /\ pbRunning = FALSE
    /\ compiler = "t1_experiment" /\ lastArgs = NoArgs /\ raised = "idle"
    /\ loaded = {}
    /\ rmOpen = FALSE /\ liOpen = FALSE
    /\ params \in ParamVals
    /\ pc = "pb_init_simple"
    /\ i = 0 /\ loop_counter = 0 /\ Rvals = << >> /\ R = -1
    /\ exc = "none"
    /\ interruptionRequested = FALSE
    /\ delivered = "none"
    /\ result = NoResult
    /\ pointCalls = << >> /\ cleanupCalls = << >> /\ cleanupFault = FALSE
    /\ recordedAtCancel = -1
    /\ tau_LI_s = << >> /\ wait_s = 0 /\ messages = << >>
    /\ cancelSeen = FALSE /\ slept = 0 /\ excAtFinally = "unset"
    /\ GuiNotShown
    /\ DriverNotLoaded

\* line 46: pb_init_simple(), before the try block
PbInitSimple ==
    /\ pc = "pb_init_simple"
    /\ \/ /\ pbOpen' = TRUE
          /\ pc' = "init_sr830"
          /\ UNCHANGED exc
       \/ /\ exc' = "SequencerFault"
          /\ pc' = "deliver"
          /\ UNCHANGED pbOpen
    /\ UNCHANGED <<compileVars, pbRunning, rmOpen, liOpen, params, i, loop_counter,
                   Rvals, R, interruptionRequested, delivered, result, histVars,
                   settleVars, messages, cancelSeen, slept, excAtFinally>>
    /\ UNCHANGED outsideSweep

\* lines 47-58: init_sr830(), wait_s, taus_us, Rvals = [], loop_counter = 0,
\* all before the try block
InitSr830 ==
    /\ pc = "init_sr830"
    /\ \/ \E tc \in OfltVals :                \* tc = int(li.query("OFLT?"))
            /\ rmOpen' = TRUE /\ liOpen' = TRUE
            /\ tau_LI_s' = TcGet(tc)
            /\ IF TcGet(tc) = << >>
               THEN /\ exc' = "TypeError"      \* line 48: 10 * None
                    /\ pc' = "deliver"
                    /\ UNCHANGED <<wait_s, Rvals, loop_counter>>
               ELSE /\ wait_s' = WaitS(TcGet(tc)[1])
                    /\ Rvals' = << >> /\ loop_counter' = 0
                    /\ pc' = "while"
                    /\ UNCHANGED exc
       \/ /\ rmOpen' = TRUE                    \* open_resource or a query raised
          /\ exc' = "VisaIOError"
          /\ pc' = "deliver"
          /\ UNCHANGED <<liOpen, Rvals, loop_counter, settleVars>>
    /\ UNCHANGED <<compileVars, pbOpen, pbRunning, params, i, R,
                   interruptionRequested, delivered, result, histVars,
                   messages, cancelSeen, slept, excAtFinally>>
    /\ UNCHANGED outsideSweep

\* line 64: while loop_counter < loops (the for loop starts over at i = 0)
WhileTest ==
    /\ pc = "while"
    /\ IF loop_counter < params.loops
       THEN i' = 0 /\ pc' = "for"
       ELSE pc' = "finally_pb" /\ UNCHANGED i
    /\ UNCHANGED <<compileVars, hwVars, params, loop_counter, Rvals, R, exc,
                   interruptionRequested, delivered, result, histVars,
                   settleVars, messages, cancelSeen, slept, excAtFinally>>
    /\ UNCHANGED outsideSweep

ForNextClearsFlag ==
    /\ pc = "for"
    /\ IF i >= Len(Taus)
       THEN /\ loop_counter' = loop_counter + 1
            /\ pc' = "while"
            /\ UNCHANGED <<pointCalls, messages, cancelSeen, interruptionRequested>>
       ELSE IF interruptionRequested
       THEN /\ messages' = EmitInterrupted(messages)
            /\ cancelSeen' = TRUE
            /\ interruptionRequested' = FALSE
            /\ loop_counter' = loop_counter + 1
            /\ pc' = "while"
            /\ UNCHANGED pointCalls
       ELSE /\ pointCalls' = << >>
            /\ pc' = "stop_reset"
            /\ UNCHANGED <<loop_counter, messages, cancelSeen, interruptionRequested>>
    /\ UNCHANGED <<compileVars, hwVars, params, i, Rvals, R, exc,
                   delivered, result,
                   cleanupCalls, cleanupFault, recordedAtCancel,
                   settleVars, slept, excAtFinally>>
    /\ UNCHANGED outsideSweep

\* lines 65-68 and 84: the head of the for loop with the interruption poll;
\* an exhausted for loop (which polls nothing) and a break both go on to
\* loop_counter + 1
ForNext ==
    /\ pc = "for"
    /\ IF i >= Len(Taus)
       THEN /\ loop_counter' = loop_counter + 1
            /\ pc' = "while"
            /\ UNCHANGED <<pointCalls, messages, cancelSeen>>
       ELSE IF interruptionRequested
       THEN /\ messages' = EmitInterrupted(messages)
            /\ cancelSeen' = TRUE
            /\ loop_counter' = loop_counter + 1
            /\ pc' = "while"
            /\ UNCHANGED pointCalls
       ELSE /\ pointCalls' = << >>
            /\ pc' = "stop_reset"
            /\ UNCHANGED <<loop_counter, messages, cancelSeen>>
    /\ UNCHANGED <<compileVars, hwVars, params, i, Rvals, R, exc,
                   interruptionRequested, delivered, result,
                   cleanupCalls, cleanupFault, recordedAtCancel,
                   settleVars, slept, excAtFinally>>
    /\ UNCHANGED outsideSweep

PbResetOnly ==
    /\ pc = "stop_reset"
    /\ pointCalls' = Append(pointCalls, "pb_reset")
    /\ pc' = "program"
    /\ UNCHANGED <<compileVars, hwVars, params, i, loop_counter, Rvals, R, exc,
                   interruptionRequested, delivered, result,
                   cleanupCalls, cleanupFault, recordedAtCancel,
                   settleVars, messages, cancelSeen, slept, excAtFinally>>
    /\ UNCHANGED outsideSweep

\* lines 70-71: pb_stop(); pb_reset()
PbStopReset ==
    /\ pc = "stop_reset"
    /\ \/ /\ pointCalls' = pointCalls \o << "pb_stop", "pb_reset" >>
          /\ pbRunning' = FALSE
          /\ pc' = "program"
          /\ UNCHANGED exc
       \/ /\ pointCalls' = Append(pointCalls, "pb_stop")       \* pb_stop raised
          /\ RaiseInTry("SequencerFault")
          /\ UNCHANGED pbRunning
       \/ /\ pointCalls' = pointCalls \o << "pb_stop", "pb_reset" >>   \* pb_reset raised
          /\ pbRunning' = FALSE
          /\ RaiseInTry("SequencerFault")
    /\ UNCHANGED <<compileVars, pbOpen, rmOpen, liOpen, params, i, loop_counter, Rvals, R,
                   interruptionRequested, delivered, result,
                   cleanupCalls, cleanupFault, recordedAtCancel,
                   settleVars, messages, cancelSeen, slept, excAtFinally>>
    /\ UNCHANGED outsideSweep

ProgramAppends ==
    /\ pc = "program"
    /\ LET a == [tau_us |-> Taus[i + 1], tref_ms |-> params.tref_ms,
                 init_us |-> params.init_us, second_us |-> params.second_us,
                 read_us |-> params.read_us]
           r == ProgramThreePulse(a.tau_us, a.tref_ms, a.init_us, a.second_us, a.read_us)
       IN  /\ lastArgs' = a
           /\ compiler' = "t1_experiment"
           /\ \/ /\ raised' = r.raised
                 /\ pointCalls' = pointCalls \o r.calls
                 /\ IF r.raised = "none"
                    THEN /\ pbProgram' = pbProgram \o r.steps
                         /\ loaded' = loaded \cup {[args |-> a, steps |-> pbProgram']}
                         /\ pc' = "start"
                         /\ UNCHANGED exc
                    ELSE RaiseInTry(r.raised) /\ UNCHANGED <<pbProgram, loaded>>
              \/ /\ r.raised = "none"                  \* the board refused the load
                 /\ raised' = "SequencerFault"
                 /\ pointCalls' = Append(pointCalls, "pb_start_programming")
                 /\ RaiseInTry("SequencerFault")
                 /\ UNCHANGED <<pbProgram, loaded>>
    /\ UNCHANGED <<hwVars, params, i, loop_counter, Rvals, R,
                   interruptionRequested, delivered, result,
                   cleanupCalls, cleanupFault, recordedAtCancel,
                   settleVars, messages, cancelSeen, slept, excAtFinally>>
    /\ UNCHANGED outsideSweep

\* line 72: _program_three_pulse_sequence(float(tau), tref_ms, init_us, second_us, read_us)
Program ==
    /\ pc = "program"
    /\ LET a == [tau_us |-> Taus[i + 1], tref_ms |-> params.tref_ms,
                 init_us |-> params.init_us, second_us |-> params.second_us,
                 read_us |-> params.read_us]
           r == ProgramThreePulse(a.tau_us, a.tref_ms, a.init_us, a.second_us, a.read_us)
       IN  /\ lastArgs' = a
           /\ compiler' = "t1_experiment"
           /\ \/ /\ raised' = r.raised
                 /\ pointCalls' = pointCalls \o r.calls
                 /\ IF r.raised = "none"
                    THEN /\ pbProgram' = r.steps
                         /\ loaded' = loaded \cup {[args |-> a, steps |-> pbProgram']}
                         /\ pc' = "start"
                         /\ UNCHANGED exc
                    ELSE RaiseInTry(r.raised) /\ UNCHANGED <<pbProgram, loaded>>
              \/ /\ r.raised = "none"                  \* the board refused the load
                 /\ raised' = "SequencerFault"
                 /\ pointCalls' = Append(pointCalls, "pb_start_programming")
                 /\ RaiseInTry("SequencerFault")
                 /\ UNCHANGED <<pbProgram, loaded>>
    /\ UNCHANGED <<hwVars, params, i, loop_counter, Rvals, R,
                   interruptionRequested, delivered, result,
                   cleanupCalls, cleanupFault, recordedAtCancel,
                   settleVars, messages, cancelSeen, slept, excAtFinally>>
    /\ UNCHANGED outsideSweep

\* line 73: pb_start()
PbStart ==
    /\ pc = "start"
    /\ pointCalls' = Append(pointCalls, "pb_start")
    /\ \/ /\ pbRunning' = TRUE
          /\ pc' = "settle"
          /\ UNCHANGED exc
       \/ /\ RaiseInTry("SequencerFault")
          /\ UNCHANGED pbRunning
    /\ UNCHANGED <<compileVars, pbOpen, rmOpen, liOpen, params, i, loop_counter, Rvals, R,
                   interruptionRequested, delivered, result,
                   cleanupCalls, cleanupFault, recordedAtCancel,
                   settleVars, messages, cancelSeen, slept, excAtFinally>>
    /\ UNCHANGED outsideSweep

\* line 75: time.sleep(wait_s)
Settle ==
    /\ pc = "settle"
    /\ pointCalls' = Append(pointCalls, "sleep")
    /\ slept' = wait_s
    /\ pc' = "read"
    /\ UNCHANGED <<compileVars, hwVars, params, i, loop_counter, Rvals, R, exc,
                   interruptionRequested, delivered, result,
                   cleanupCalls, cleanupFault, recordedAtCancel,
                   settleVars, messages, cancelSeen, excAtFinally>>
    /\ UNCHANGED outsideSweep

ReadSubstitutesStale ==
    /\ pc = "read"
    /\ pointCalls' = Append(pointCalls, "sr830_read_R")
    /\ \/ R' = (IF pbRunning THEN lastArgs.tau_us ELSE -1)
       \/ UNCHANGED R                          \* the query failed: the old R is kept
    /\ pc' = "record"
    /\ UNCHANGED <<compileVars, hwVars, params, i, loop_counter, Rvals, exc,
                   interruptionRequested, delivered, result,
                   cleanupCalls, cleanupFault, recordedAtCancel,
                   settleVars, messages, cancelSeen, slept, excAtFinally>>
    /\ UNCHANGED outsideSweep

ReadPollsInterruption ==
    /\ pc = "read"
    /\ IF interruptionRequested
       THEN /\ messages' = EmitInterrupted(messages)
            /\ cancelSeen' = TRUE
            /\ loop_counter' = loop_counter + 1
            /\ pc' = "while"
            /\ UNCHANGED <<pointCalls, R, exc>>
       ELSE /\ pointCalls' = Append(pointCalls, "sr830_read_R")
            /\ R' = (IF pbRunning THEN lastArgs.tau_us ELSE -1)
            /\ pc' = "record"
            /\ UNCHANGED <<exc, messages, cancelSeen, loop_counter>>
    /\ UNCHANGED <<compileVars, hwVars, params, i, Rvals,
                   interruptionRequested, delivered, result,
                   cleanupCalls, cleanupFault, recordedAtCancel,
                   settleVars, slept, excAtFinally>>
    /\ UNCHANGED outsideSweep

\* line 76: R = sr830_read_R(li); the lock-in answers for the program that runs
Read ==
    /\ pc = "read"
    /\ pointCalls' = Append(pointCalls, "sr830_read_R")
    /\ \/ /\ R' = (IF pbRunning THEN lastArgs.tau_us ELSE -1)
          /\ pc' = "record"
          /\ UNCHANGED exc
       \/ /\ RaiseInTry("VisaIOError")
          /\ UNCHANGED R
    /\ UNCHANGED <<compileVars, hwVars, params, i, loop_counter, Rvals,
                   interruptionRequested, delivered, result,
                   cleanupCalls, cleanupFault, recordedAtCancel,
                   settleVars, messages, cancelSeen, slept, excAtFinally>>
    /\ UNCHANGED outsideSweep

\* lines 77-82: Rvals.append(R), the plot update, the progress emit, next i.
\* line.set_data(taus_s[:i+1], Rvals) hands matplotlib i + 1 abscissas and
\* Len(Rvals) ordinates; what relim() does when the two differ is the library's:
\* it may go on or raise.
Record ==
    /\ pc = "record"
    /\ Rvals' = Append(Rvals, R)
    /\ \/ /\ messages' = EmitPoint(messages, i + 1)
          /\ i' = i + 1
          /\ pc' = "for"
          /\ UNCHANGED exc
       \/ /\ i + 1 # Len(Rvals')
          /\ RaiseInTry("PlotError")
          /\ UNCHANGED <<i, messages>>
    /\ UNCHANGED <<compileVars, hwVars, params, loop_counter, R,
                   interruptionRequested, delivered, result, histVars,
                   settleVars, cancelSeen, slept, excAtFinally>>
    /\ UNCHANGED outsideSweep

FinallyPbReraises ==
    /\ pc = "finally_pb"
    /\ \E n \in 0..Len(PbCleanup) :
        /\ cleanupCalls' = cleanupCalls \o SubSeq(PbCleanup, 1, IF n < 3 THEN n + 1 ELSE 3)
        /\ cleanupFault' = (cleanupFault \/ n < 3)
        /\ pbRunning' = (IF n >= 1 THEN FALSE ELSE pbRunning)
        /\ pbOpen' = (IF n = 3 THEN FALSE ELSE pbOpen)
        /\ exc' = (IF n < 3 THEN "SequencerFault" ELSE exc)
    /\ excAtFinally' = exc
    /\ pc' = "finally_li"
    /\ UNCHANGED <<compileVars, rmOpen, liOpen, params, i, loop_counter, Rvals, R,
                   interruptionRequested, delivered, result, pointCalls, recordedAtCancel,
                   settleVars, messages, cancelSeen, slept>>
    /\ UNCHANGED outsideSweep

\* line 86: try: pb_stop(); pb_reset(); pb_close()  except: pass
\* n of the three calls return; the next one, if any, raises and ends the block
FinallyPb ==
    /\ pc = "finally_pb"
    /\ \E n \in 0..Len(PbCleanup) :
        /\ cleanupCalls' = cleanupCalls \o SubSeq(PbCleanup, 1, IF n < 3 THEN n + 1 ELSE 3)
        /\ cleanupFault' = (cleanupFault \/ n < 3)
        /\ pbRunning' = (IF n >= 1 THEN FALSE ELSE pbRunning)
        /\ pbOpen' = (IF n = 3 THEN FALSE ELSE pbOpen)
    /\ excAtFinally' = exc
    /\ pc' = "finally_li"
    /\ UNCHANGED <<compileVars, rmOpen, liOpen, runVarsButPc, pointCalls, recordedAtCancel,
                   settleVars, messages, cancelSeen, slept>>
    /\ UNCHANGED outsideSweep

\* line 88: try: li.close(); rm.close()  except: pass
FinallyLi ==
    /\ pc = "finally_li"
    /\ \E n \in 0..Len(LiCleanup) :
        /\ cleanupCalls' = cleanupCalls \o SubSeq(LiCleanup, 1, IF n < 2 THEN n + 1 ELSE 2)
        /\ cleanupFault' = (cleanupFault \/ n < 2)
        /\ liOpen' = (IF n >= 1 THEN FALSE ELSE liOpen)
        /\ rmOpen' = (IF n = 2 THEN FALSE ELSE rmOpen)
    /\ pc' = "deliver"
    /\ UNCHANGED <<compileVars, pbOpen, pbRunning, runVarsButPc, pointCalls, recordedAtCancel,
                   settleVars, messages, cancelSeen, slept, excAtFinally>>
    /\ UNCHANGED outsideSweep

\* line 91 and Worker.run lines 55-59: run returns its dict and the worker emits
\* finished(result), or run raised and the worker emits error(text)
Deliver ==
    /\ pc = "deliver"
    /\ IF exc = "none"
       THEN /\ result' = [tau_s |-> Taus, R_V |-> Rvals]
            /\ delivered' = "finished"
       ELSE /\ delivered' = "error"
            /\ UNCHANGED result
    /\ pc' = "done"
    /\ UNCHANGED <<compileVars, hwVars, params, i, loop_counter, Rvals, R, exc,
                   interruptionRequested, histVars,
                   settleVars, messages, cancelSeen, slept, excAtFinally>>
    /\ UNCHANGED outsideSweep

\* ExperimentTab.stop_experiment (main_gui.py lines 118-121) on the interface
\* thread: requestInterruption() while the worker is running
RequestInterruption ==
    /\ pc # "done"
    /\ ~interruptionRequested
    /\ interruptionRequested' = TRUE
    /\ recordedAtCancel' = Len(Rvals)
    /\ UNCHANGED <<compileVars, hwVars, params, pc, i, loop_counter, Rvals, R, exc,
                   delivered, result, pointCalls, cleanupCalls, cleanupFault,
                   settleVars, messages, cancelSeen, slept, excAtFinally>>
    /\ UNCHANGED outsideSweep

Next ==
    \/ PbInitSimple \/ InitSr830 \/ WhileTest \/ ForNext \/ PbStopReset \/ Program
    \/ PbStart \/ Settle \/ Read \/ Record \/ FinallyPb \/ FinallyLi \/ Deliver
    \/ RequestInterruption

Spec == Init /\ [][Next]_vars

\* ------------------------------------------------------------------ properties of the sweep

\* the k-th point (1-based) does not fit the second half: second + tau + read, in
\* microseconds, exceeds half of tref_ms
OverBudget(k) == params.second_us + Taus[k] + params.read_us > 500 * params.tref_ms

AfterTry == {"finally_pb", "finally_li", "deliver", "done"}

\* the controller is past the Program step of the current point
PastProgram == pc \in {"start", "settle", "read", "record"}

C3_FinalizedBeforeDelivery ==
    (delivered # "none" /\ ~cleanupFault) =>
        /\ (pbOpen \/ "pb_close" \in Range(cleanupCalls)) =>
              Range(PbCleanup) \subseteq Range(cleanupCalls)
        /\ (liOpen \/ "li.close" \in Range(cleanupCalls)) =>
              Range(LiCleanup) \subseteq Range(cleanupCalls)

\* C4: the number of recorded measurements never exceeds the number of sweep
\* points, and a run cancelled after k < N points were recorded ends with k or
\* k + 1 measurements.
C4_CancelledRunKeepsKOrKPlusOne ==
    /\ Len(Rvals) <= params.points
    /\ (pc = "done" /\ recordedAtCancel \in 0..(params.points - 1)) =>
          Len(Rvals) \in {recordedAtCancel, recordedAtCancel + 1}

\* C5: a run that was never cancelled and returned normally returns one
\* measurement per sweep value, the k-th read while the program of the k-th
\* value was running, and the sweep values in order.
C5_CompletedRunReturnsNMeasurements ==
    (delivered = "finished" /\ recordedAtCancel = -1) =>
        /\ Len(result.R_V) = params.points
        /\ \A k \in 1..Len(result.R_V) : k <= Len(Taus) /\ result.R_V[k] = Taus[k]
        /\ result.tau_s = Taus


\* ------------------------------------------------------------------ properties of the compiled program

\* the compiler's view of the last call: its channel masks, its half-period and
\* its arguments in the unit of the instruction lengths
RefMask == IF compiler = "t1" THEN T1_CH_REF ELSE CH_REF
LaserMask == IF compiler = "t1" THEN T1_CH_LASER ELSE CH_LASER
Half == IF compiler = "t1" THEN HalfUs(lastArgs.tref_ms) ELSE HalfNs(lastArgs.tref_ms)
InLen(us) == IF compiler = "t1" THEN us ELSE UsToNs(us)
Accepted == raised = "none"

RefHighSteps == LET IsHigh(st) == HasBits(st.flags, RefMask) IN SelectSeq(pbProgram, IsHigh)
RefLowSteps == LET IsLow(st) == ~HasBits(st.flags, RefMask) IN SelectSeq(pbProgram, IsLow)
DarkContinueSteps ==
    LET IsDark(st) == st.flags = 0 /\ st.inst = "CONTINUE" IN SelectSeq(pbProgram, IsDark)
FillerComputed ==
    Half - (InLen(lastArgs.second_us) + InLen(lastArgs.tau_us) + InLen(lastArgs.read_us))

\* C1: for every accepted argument tuple the steps with the reference high sum
\* to the half-period and the steps with the reference low sum to the
\* half-period, the boundary second + tau + read = half-period included.
C1_HalvesSumToHalfPeriod ==
    Accepted => /\ SumLen(RefHighSteps) = Half
                /\ SumLen(RefLowSteps) = Half

\* C6: a computed filler below the minimum instruction width (1) makes the call
\* fail; an accepted call's filler has the computed length, never a length
\* rounded up to the minimum.
C6_ShortFillerRejected ==
    /\ (raised # "idle" /\ FillerComputed < 1) => raised = "ValueError"
    /\ Accepted => pbProgram[Len(pbProgram)].length = FillerComputed

\* C7: every step of an accepted call has a length of at least 1.
C7_NoZeroLengthStep ==
    Accepted => \A k \in 1..Len(pbProgram) : pbProgram[k].length >= 1

\* C8: with tau = 0 the program has no dark delay step and the read pulse
\* follows the second pulse directly; with tau > 0 exactly one dark step of
\* length tau stands between the second pulse and the read pulse.
C8_DelayStepOnlyWhenPositive ==
    Accepted =>
        /\ pbProgram[3] = Inst(LaserMask, "CONTINUE", 0, InLen(lastArgs.second_us))
        /\ lastArgs.tau_us = 0 =>
              /\ DarkContinueSteps = << >>
              /\ pbProgram[4] = Inst(LaserMask, "CONTINUE", 0, InLen(lastArgs.read_us))
        /\ lastArgs.tau_us > 0 =>
              /\ DarkContinueSteps = << Inst(0, "CONTINUE", 0, InLen(lastArgs.tau_us)) >>
              /\ pbProgram[4] = Inst(0, "CONTINUE", 0, InLen(lastArgs.tau_us))
              /\ pbProgram[5] = Inst(LaserMask, "CONTINUE", 0, InLen(lastArgs.read_us))

C8_Witness ==
    /\ Accepted
    /\ compiler = "t1_experiment"
    /\ lastArgs.tau_us = 0
    /\ Len(pbProgram) = 5

\* C9: the last step of every compiled program is a BRANCH to instruction 0,
\* and every step before it is a CONTINUE.
C9_OnlyLastStepBranchesToStart ==
    Accepted =>
        /\ Len(pbProgram) >= 1
        /\ pbProgram[Len(pbProgram)].inst = "BRANCH"
        /\ pbProgram[Len(pbProgram)].inst_data = 0
        /\ \A k \in 1..(Len(pbProgram) - 1) : pbProgram[k].inst = "CONTINUE"

C9_Witness ==
    /\ Accepted
    /\ compiler = "t1_experiment"
    /\ Len(pbProgram) = 6

InterruptedLine == [line |-> "Interrupted by user.", point |-> 0]

\* ExperimentTab.on_finished and on_error (main_gui.py lines 135-145): the
\* signal that ended the run and the status text the tab shows for it
TerminalReport ==
    CASE delivered = "finished" -> [signal |-> "finished", status |-> "Done"]
      [] delivered = "error"    -> [signal |-> "error", status |-> "Error"]
      [] OTHER                  -> [signal |-> "none", status |-> "Running"]

\* a run has read every point of every pass
CompletedAllPoints == Len(Rvals) = params.loops * params.points

\* C11: a run that ended because a poll found the interruption flag set ends
\* with a report (terminating signal and status) that differs from the report
\* of a run that completed all points.
C11_CancelledReportDiffersFromCompleted ==
    (pc = "done" /\ cancelSeen /\ exc = "none") =>
        TerminalReport # [signal |-> "finished", status |-> "Done"]

\* what does tell the two apart: the log line of line 67 is emitted by the
\* cancelled run and by no other, and only the completed run returns
\* loops * points measurements
C11_OnlyLogLineAndLengthDiffer ==
    delivered = "finished" =>
        /\ cancelSeen <=> InterruptedLine \in Range(messages)
        /\ cancelSeen <=> ~CompletedAllPoints
        /\ TerminalReport = [signal |-> "finished", status |-> "Done"]

\* C12: in every returned result the parameter list and the measurement list
\* have the same length, the number of points whose read completed.
C12_ResultListsSameLength ==
    delivered = "finished" =>
        /\ Len(result.tau_s) = Len(result.R_V)
        /\ Len(result.R_V) = Len(Rvals)

\* the controller is between the poll of a point and the end of its record
MidPoint == {"stop_reset", "program", "start", "settle", "read", "record"}

\* C13: the interruption flag is looked at only by the poll at the head of a
\* point.  With a request pending, the controller leaves a point it has begun
\* only by recording its read or by a fault; the request by itself never does.
C13_RequestAfterPollDoesNotSkipRecord ==
    [][/\ cancelSeen' # cancelSeen => pc = "for"
       /\ (interruptionRequested' /\ pc \in MidPoint /\ pc' \notin MidPoint) =>
             \/ exc' # "none"
             \/ pc = "record" /\ Rvals' = Append(Rvals, R)]_vars

C13_Witness ==
    /\ pc = "done"
    /\ delivered = "finished"
    /\ cancelSeen
    /\ recordedAtCancel = 1
    /\ Len(result.R_V) = 2

\* the number of controller steps a cancelled run has left at most: the passes
\* still to be polled and broken, then the two finally blocks and the delivery
StepsLeft ==
    CASE pc = "done"       -> 0
      [] pc = "deliver"    -> 1
      [] pc = "finally_li" -> 2
      [] pc = "finally_pb" -> 3
      [] pc = "while"      -> 4 + 2 * (params.loops - loop_counter)
      [] pc = "for"        -> 3 + 2 * (params.loops - loop_counter)
      [] OTHER             -> -1

\* C14: once a poll has found the interruption flag set, the controller loads
\* no program, starts no program and reads no lock-in for the rest of the run,
\* whatever the number of passes: the later passes poll and break, then the
\* finally blocks and the delivery follow, and every step brings the end of
\* the run nearer, so the run terminates.
C14_NothingButFinalizationAfterCancel ==
    [][cancelSeen' =>
          /\ pc' \in {"while", "for"} \cup AfterTry
          /\ pointCalls' = pointCalls /\ pbProgram' = pbProgram /\ Rvals' = Rvals
          /\ pbRunning' => pbRunning
          /\ StepsLeft' >= 0
          /\ cancelSeen => StepsLeft' < StepsLeft]_vars

C14_Witness ==
    /\ pc = "done"
    /\ cancelSeen
    /\ params.loops = 2 /\ params.points = 3
    /\ Len(Rvals) = 1
    /\ Len(messages) = 3

\* ------------------------------------------------------------------ one point

\* the port calls of one point whose program has n instructions, in the order
\* of lines 70-76
PointCallOrder(n) ==
    << "pb_stop", "pb_reset", "pb_start_programming" >>
    \o [k \in 1..n |-> "pb_inst_pbonly"]
    \o << "pb_stop_programming", "pb_start", "sleep", "sr830_read_R" >>

\* C15: for every recorded point the port calls are, in this order, sequencer
\* stop, sequencer reset, program load, program start, settle wait, exactly one
\* lock-in read, and then the record; the read is taken while the point's own
\* program runs, and no program is loaded while the previous one still runs.
C15_PointCallsInOrder ==
    /\ pc = "program" => ~pbRunning /\ pointCalls = << "pb_stop", "pb_reset" >>
    /\ pc = "read" => pbRunning /\ lastArgs.tau_us = Taus[i + 1]
    /\ pc = "record" =>
          /\ pointCalls = PointCallOrder(Len(pbProgram))
          /\ pbRunning
          /\ R = Taus[i + 1]

C15_Witness ==
    /\ pc = "record"
    /\ i = 1 /\ Len(Rvals) = 1
    /\ Len(pbProgram) = 6
    /\ pointCalls = PointCallOrder(6)

\* ------------------------------------------------------------------ finalization

\* the finally block of line 85 has run
Finalized == pc \in {"deliver", "done"} /\ excAtFinally # "unset"

\* C16: when the finally block has run, every cleanup call (pb_stop, pb_reset,
\* pb_close, li.close, rm.close) was attempted, also when an earlier one raised.
C16_EveryCleanupAttempted ==
    Finalized => Range(cleanupCalls) = Range(PbCleanup) \cup Range(LiCleanup)

\* C17: a cleanup call that raises changes nothing of the run's outcome: the
\* exception pending when the finally block was entered is the one pending
\* after it; a run that reached the finally block without exception returns
\* its result (finished), and one that reached it with an exception delivers
\* that exception (error) and no result.
C17_CleanupFaultKeepsOutcome ==
    /\ pc \in {"finally_li", "deliver", "done"} /\ excAtFinally # "unset" =>
          exc = excAtFinally
    /\ pc = "done" /\ excAtFinally = "none" =>
          delivered = "finished" /\ result = [tau_s |-> Taus, R_V |-> Rvals]
    /\ pc = "done" /\ excAtFinally \notin {"none", "unset"} =>
          delivered = "error" /\ result = NoResult

C17_Witness ==
    /\ pc = "done"
    /\ cleanupCalls = << "pb_stop", "li.close" >>
    /\ cleanupFault
    /\ delivered = "finished"
    /\ Len(result.R_V) = 2

\* ------------------------------------------------------------------ read failure

\* the lock-in read of line 76 raised
ReadFailed == exc = "VisaIOError" /\ pointCalls # << >>

\* C18: a read that fails fails the run at that point: the read was made once
\* and not again, no value was appended for the point (the list holds the
\* values of the points before it), no later point is programmed or read, and
\* only the finally blocks and the delivery follow.  No recorded value is ever
\* anything but the reading taken for its own point.
C18_ReadFailureFailsTheRun ==
    /\ ReadFailed =>
          /\ pc \in AfterTry
          /\ pointCalls = PointCallOrder(Len(pbProgram))
          /\ Len(Rvals) = loop_counter * Len(Taus) + i
          /\ lastArgs.tau_us = Taus[i + 1]
          /\ delivered # "finished"
    /\ \A k \in 1..Len(Rvals) : Rvals[k] = Taus[((k - 1) % Len(Taus)) + 1]

C18_Witness ==
    /\ ReadFailed
    /\ pc = "done" /\ delivered = "error"
    /\ params.points = 3
    /\ i = 1 /\ Len(Rvals) = 1

\* ------------------------------------------------------------------ settle wait

\* a settle wait of the current point has been slept
HasSlept == pc \in {"read", "record"}

\* C19: the wait slept before every read is max(floor, factor * tc) for the
\* time constant tc the lock-in reported, and so never below the floor, the
\* smallest time constant included.
C19_SettleIsMaxOfFloorAndFactorTc ==
    HasSlept =>
        /\ tau_LI_s # << >>
        /\ slept >= SettleFloor
        /\ slept >= SettleFactor * tau_LI_s[1]
        /\ slept \in {SettleFloor, SettleFactor * tau_LI_s[1]}

C19_Witness ==
    /\ pc = "read"
    /\ tau_LI_s = << 1 >>
    /\ slept = SettleFloor
    /\ Len(Rvals) = 1

\* C20 as claimed: with a time constant of 10 ms (1000 ticks) the wait slept
\* before each read is 100 ms (10000 ticks).
C20_SettleIs100msAt10ms ==
    (HasSlept /\ tau_LI_s = << 1000 >>) => slept = 10000

\* C20 as amended: with a time constant of 10 ms the wait slept before each
\* read is 1 s (100000 ticks): 10 * 10 ms is below the floor of 1 s.
C20_SettleIs1sAt10ms ==
    (HasSlept /\ tau_LI_s = << 1000 >>) => slept = 100000

C20_Witness ==
    /\ pc = "record"
    /\ tau_LI_s = << 1000 >>
    /\ slept = 100000
    /\ params.points = 3 /\ i = 2

\* ------------------------------------------------------------------ priming

\* init_sr830 has returned to run
Connected == liOpen \/ "li.close" \in Range(cleanupCalls)

\* C21: whatever index the lock-in answers to OFLT?, init_sr830 returns a
\* numeric time constant and run derives its settle wait from it: the index
\* never makes line 48 fail and the wait is defined when init_sr830 returned.
C21_EveryIndexGivesSettleWait ==
    /\ exc # "TypeError"
    /\ (Connected /\ pc # "init_sr830") => tau_LI_s # << >> /\ wait_s > 0

\* ------------------------------------------------------------------ determinism

MaxWorkers == 2
MaxTabPoints == 2

\* the names a runner's module binds at its top (its import lines): run looks
\* the name QThread up there when it polls for interruption
ModuleNames(r) ==
    IF r = "t1_experiment"
    THEN {"time", "np", "init_sr830", "sr830_read_R", "pb_init_simple",
          "Qt", "QObject", "pyqtSignal", "QThread"}
    ELSE {"np", "time"}

\* only t1_experiment.py calls the sequencer and the lock-in; the other runners
\* compute their values
DrivesHardware(r) == r = "t1_experiment"

\* QThread.isRunning() of the tab's worker
IsRunning(t) == thread[t].pc \in {"start", "poll", "point", "plot", "emit", "exit"}

InitGui ==
    /\ pbProgram = << >> /\ compiler = "none" /\ lastArgs = NoArgs /\ raised = "idle"
    /\ loaded = {}
    /\ RunNotStarted
    /\ usedTabs \in {{"T1", t} : t \in AllTabs \ {"T1"}}   \* T1 and one of the others
    /\ tab = [t \in AllTabs |-> NewTab]
    /\ thread = [t \in AllTabs |-> NoThread]
    /\ queued = [t \in AllTabs |-> "none"]
    /\ stopClicked = [t \in AllTabs |-> {}]
    /\ msgs = [t \in AllTabs |-> 0]
    /\ drawing = "none"
    /\ DriverNotLoaded

StartExperimentSameThread(t) ==
    /\ t \in usedTabs
    /\ drawing = "none"
    /\ tab[t].btn_run
    /\ tab[t].worker < MaxWorkers
    /\ IF tab[t].worker # 0 /\ IsRunning(t)
       THEN UNCHANGED <<tab, thread, stopClicked>>
       ELSE \E n \in 1..MaxTabPoints :
              /\ tab' = [tab EXCEPT ![t] = [btn_run |-> FALSE, btn_stop |-> TRUE,
                                            worker |-> @.worker + 1,
                                            status_lbl |-> "Running"]]
              /\ thread' = [thread EXCEPT ![t] = [NoThread EXCEPT !.pc = "start",
                                                                   !.points = n,
                                                                   !.flag = thread[t].flag]]
              /\ UNCHANGED stopClicked
    /\ UNCHANGED <<usedTabs, msgs, drawing, queued, sweepVars, driverVars>>

\* ExperimentTab.start_experiment (lines 102-116), the slot of the Run button:
\* nothing happens while the tab's worker runs; otherwise a new Worker is
\* created with the form's parameters and started
StartExperiment(t) ==
    /\ t \in usedTabs
    /\ drawing = "none"
    /\ tab[t].btn_run
    /\ tab[t].worker < MaxWorkers
    /\ IF tab[t].worker # 0 /\ IsRunning(t)
       THEN UNCHANGED <<tab, thread, stopClicked>>
       ELSE \E n \in 1..MaxTabPoints :
              /\ tab' = [tab EXCEPT ![t] = [btn_run |-> FALSE, btn_stop |-> TRUE,
                                            worker |-> @.worker + 1,
                                            status_lbl |-> "Running"]]
              /\ thread' = [thread EXCEPT ![t] = [NoThread EXCEPT !.pc = "start",
                                                                   !.points = n]]
              /\ UNCHANGED stopClicked
    /\ UNCHANGED <<usedTabs, msgs, drawing, queued, sweepVars, driverVars>>

\* ExperimentTab.stop_experiment (lines 118-121), the slot of the Stop button
StopExperiment(t) ==
    /\ t \in usedTabs
    /\ drawing = "none"
    /\ tab[t].btn_stop
    /\ tab[t].worker \notin stopClicked[t]
    /\ stopClicked' = [stopClicked EXCEPT ![t] = @ \cup {tab[t].worker}]
    /\ IF tab[t].worker # 0 /\ IsRunning(t)
       THEN thread' = [thread EXCEPT ![t].flag = TRUE]
       ELSE UNCHANGED thread
    /\ UNCHANGED <<usedTabs, msgs, drawing, tab, queued, sweepVars, driverVars>>

\* Worker.run lines 45-54 up to the runner's loop: ax.clear(), the runner's set
\* up; t1_experiment opens the board and the lock-in, which may fail
WorkerEnter(t) ==
    /\ thread[t].pc = "start"
    /\ \/ thread' = [thread EXCEPT ![t].pc = "poll",
                                   ![t].driving = DrivesHardware(Runner(t))]
       \/ /\ DrivesHardware(Runner(t))
          /\ thread' = [thread EXCEPT ![t].pc = "emit", ![t].exc = "VisaIOError"]
    /\ UNCHANGED <<usedTabs, msgs, drawing, tab, queued, stopClicked, sweepVars, driverVars>>

\* the head of the runner's for loop: an exhausted loop returns; otherwise
\* QThread.currentThread().isInterruptionRequested() is evaluated, which needs
\* the name QThread in the runner's module, and a set flag breaks the loop
WorkerPoll(t) ==
    /\ thread[t].pc = "poll"
    /\ thread' = [thread EXCEPT ![t] =
          IF @.i >= @.points THEN [@ EXCEPT !.pc = "emit", !.driving = FALSE]
          ELSE IF "QThread" \notin ModuleNames(Runner(t))
          THEN [@ EXCEPT !.pc = "emit", !.exc = "NameError", !.driving = FALSE]
          ELSE IF @.flag THEN [@ EXCEPT !.pc = "emit", !.driving = FALSE]
          ELSE [@ EXCEPT !.pc = "point"]]
    /\ msgs' = [msgs EXCEPT ![t] =
          IF thread[t].i < thread[t].points /\ "QThread" \in ModuleNames(Runner(t))
             /\ thread[t].flag
          THEN @ + 1 ELSE @]      \* emit(line="Interrupted by user.")
    /\ UNCHANGED <<usedTabs, drawing, tab, queued, stopClicked, sweepVars, driverVars>>

\* one point of the runner as far as the append: the wait, the value; the
\* hardware of t1_experiment may fail.  With the value appended the runner
\* enters line.set_data(...)
WorkerPoint(t) ==
    /\ thread[t].pc = "point"
    /\ \/ thread' = [thread EXCEPT ![t].pc = "plot", ![t].i = @ + 1, ![t].n = @ + 1]
       \/ /\ thread[t].driving
          /\ thread' = [thread EXCEPT ![t].pc = "emit", ![t].exc = "VisaIOError",
                                      ![t].driving = FALSE]
    /\ UNCHANGED <<usedTabs, msgs, drawing, tab, queued, stopClicked, sweepVars, driverVars>>

\* the runner leaves ax.autoscale() and emits the point's line, status and
\* progress (t1_experiment.py lines 80-82); the signals are queued for the
\* interface thread and the runner goes on
WorkerPlot(t) ==
    /\ thread[t].pc = "plot"
    /\ thread' = [thread EXCEPT ![t].pc = "poll"]
    /\ msgs' = [msgs EXCEPT ![t] = @ + 1]
    /\ UNCHANGED <<usedTabs, drawing, tab, queued, stopClicked, sweepVars, driverVars>>

\* ExperimentTab.on_message (lines 124-127) up to its entry into canvas.draw()
OnMessage(t) ==
    /\ drawing = "none"
    /\ msgs[t] > 0
    /\ msgs' = [msgs EXCEPT ![t] = @ - 1]
    /\ drawing' = t
    /\ UNCHANGED <<usedTabs, tab, thread, queued, stopClicked, sweepVars, driverVars>>

\* canvas.draw() returns and with it on_message
DrawDone ==
    /\ drawing # "none"
    /\ drawing' = "none"
    /\ UNCHANGED <<usedTabs, msgs, tab, thread, queued, stopClicked, sweepVars, driverVars>>

\* Worker.run lines 55-59: finished.emit(result), or error.emit(text) for an
\* exception; the signal is queued for the interface thread
WorkerEmit(t) ==
    /\ thread[t].pc = "emit"
    /\ queued' = [queued EXCEPT ![t] = IF thread[t].exc = "none" THEN "finished" ELSE "error"]
    /\ thread' = [thread EXCEPT ![t].pc = "exit"]
    /\ UNCHANGED <<usedTabs, msgs, drawing, tab, stopClicked, sweepVars, driverVars>>

\* Worker.run has returned: the thread ends and isRunning() becomes false
WorkerExit(t) ==
    /\ thread[t].pc = "exit"
    /\ thread' = [thread EXCEPT ![t].pc = "finished"]
    /\ UNCHANGED <<usedTabs, msgs, drawing, tab, queued, stopClicked, sweepVars, driverVars>>

\* ExperimentTab.on_finished (lines 135-139); its canvas.draw() comes when the
\* worker has left the runner, and is part of the step
OnFinished(t) ==
    /\ drawing = "none"
    /\ msgs[t] = 0              \* queued signals are handled in the order of their emission
    /\ queued[t] = "finished"
    /\ queued' = [queued EXCEPT ![t] = "none"]
    /\ tab' = [tab EXCEPT ![t].btn_run = TRUE, ![t].btn_stop = FALSE,
                          ![t].status_lbl = "Done"]
    /\ UNCHANGED <<usedTabs, msgs, drawing, thread, stopClicked, sweepVars, driverVars>>

OnErrorKeepsButtons(t) ==
    /\ drawing = "none"
    /\ msgs[t] = 0
    /\ queued[t] = "error"
    /\ queued' = [queued EXCEPT ![t] = "none"]
    /\ tab' = [tab EXCEPT ![t].status_lbl = "Error"]
    /\ UNCHANGED <<usedTabs, msgs, drawing, thread, stopClicked, sweepVars, driverVars>>

\* ExperimentTab.on_error (lines 141-145)
OnError(t) ==
    /\ drawing = "none"
    /\ msgs[t] = 0
    /\ queued[t] = "error"
    /\ queued' = [queued EXCEPT ![t] = "none"]
    /\ tab' = [tab EXCEPT ![t].btn_run = TRUE, ![t].btn_stop = FALSE,
                          ![t].status_lbl = "Error"]
    /\ UNCHANGED <<usedTabs, msgs, drawing, thread, stopClicked, sweepVars, driverVars>>

NextGui ==
    \/ \E t \in AllTabs :
        \/ StartExperiment(t) \/ StopExperiment(t)
        \/ WorkerEnter(t) \/ WorkerPoll(t) \/ WorkerPoint(t) \/ WorkerPlot(t)
        \/ WorkerEmit(t) \/ WorkerExit(t)
        \/ OnMessage(t) \/ OnFinished(t) \/ OnError(t)
    \/ DrawDone

SpecGui == InitGui /\ [][NextGui]_vars

\* ------------------------------------------------------------------ properties of the window

RunningTabs == {t \in AllTabs : IsRunning(t)}

\* C22: at no time are two sweeps active: a Run request made while a sweep's
\* worker runs starts no second worker.
C22_OneSweepAtATime == Cardinality(RunningTabs) <= 1

\* what the check of line 103 does give: a tab whose worker runs creates no
\* worker, and no two workers use the sequencer and the lock-in together
C22_OneWorkerPerTab ==
    [][\A t \in AllTabs : IsRunning(t) => tab'[t].worker = tab[t].worker]_vars

C22_OneHardwareSweep == Cardinality({t \in AllTabs : thread[t].driving}) <= 1

\* the worker's run of the experiment has ended
RunEnded(t) == thread[t].pc \in {"emit", "exit", "finished"}

\* C28: a scaffold sweep that ended with no interruption requested has
\* recorded one value for each of its points and has raised nothing.
C28_ScaffoldRecordsEveryPoint ==
    \A t \in AllTabs :
        (~DrivesHardware(Runner(t)) /\ RunEnded(t) /\ ~thread[t].flag) =>
            /\ thread[t].exc = "none"
            /\ thread[t].n = thread[t].points

\* C29: the interruption flag of a tab's worker is set only if Stop was
\* clicked during that very worker: a Stop clicked during an earlier worker
\* of the tab leaves the flag of a later one cleared.
C29_StopMeansThisWorkerOnly ==
    \A t \in AllTabs :
        /\ thread[t].flag => tab[t].worker \in stopClicked[t]
        /\ thread[t].pc = "none" => ~thread[t].flag

C29_Witness ==
    /\ tab["T1"].worker = 2
    /\ stopClicked["T1"] = {1}
    /\ thread["T1"].pc = "finished"
    /\ thread["T1"].n = 2 /\ thread["T1"].points = 2
    /\ ~thread["T1"].flag

\* the worker's finished or error signal has not been handled yet
NotificationDue(t) ==
    \/ thread[t].pc \in {"start", "poll", "point", "plot", "emit"}
    \/ queued[t] # "none"

\* C30: on every tab exactly one of Run and Stop is enabled, and Stop is the
\* enabled one exactly from the start of a worker to the handling of that
\* worker's finished or error signal.
C30_ExactlyOneButtonEnabled ==
    \A t \in AllTabs :
        /\ tab[t].btn_run # tab[t].btn_stop
        /\ tab[t].btn_stop <=> NotificationDue(t)

C30_Witness ==
    /\ tab["T1"].btn_stop /\ ~tab["T1"].btn_run
    /\ thread["T1"].pc = "finished"
    /\ queued["T1"] = "error"
    /\ tab["T1"].worker = 2

\* ------------------------------------------------------------------ the qudi lock-in modules

MaxSamples == 2    \* points the instrument's buffer holds, and the largest frame asked for

Drivers == {"piglet", "lock_in_SR830", "lock_in_SR830_x_only"}

\* piglet.py and lock_in_SR830.py implement FastCounterInterface too
IsFastCounter(d) == d \in {"piglet", "lock_in_SR830"}

\* what start_buffered_acquisition writes
StartCmds(d) == IF d = "lock_in_SR830_x_only" THEN << "REST" >> ELSE << "REST", "STRT" >>

\* the instrument: REST empties the buffer and ends the scan, STRT starts
\* storing, PAUS holds it
DeviceAfter(dev, cmd) ==
    CASE cmd = "REST" -> [storing |-> FALSE, spts |-> 0]
      [] cmd = "STRT" -> [dev EXCEPT !.storing = TRUE]
      [] cmd = "PAUS" -> [dev EXCEPT !.storing = FALSE]
      [] OTHER        -> dev

RECURSIVE DeviceAfterAll(_, _)
DeviceAfterAll(dev, cmds) ==
    IF cmds = << >> THEN dev
    ELSE DeviceAfterAll(DeviceAfter(dev, Head(cmds)), Tail(cmds))

\* self._device.write of each of cmds by the call that is starting or going on
\* "with self._thread_lock:" is entered only when no thread holds the lock
LockFree == ~thread_lock /\ other = "idle"

Write(cmds) ==
    /\ LockFree
    /\ device' = DeviceAfterAll(device, cmds)
    /\ sent' = cmds

Returns(op, v) == ret' = [op |-> op, val |-> v, exc |-> "none", keys |-> {}]

Raises(op, e) == ret' = [op |-> op, val |-> << >>, exc |-> e, keys |-> {}]

\* the SR830's sample rates (SRAT 0..13): 62.5 mHz to 512 Hz
RateTable == << 1, 2, 4, 8, 16, 32, 64, 128, 256, 512, 1024, 2048, 4096, 8192 >>

\* __init__ and on_activate of the module that is configured
InitDriver ==
    /\ pbProgram = << >> /\ compiler = "none" /\ lastArgs = NoArgs /\ raised = "idle"
    /\ loaded = {}
    /\ RunNotStarted
    /\ GuiNotShown
    /\ driver \in Drivers
    /\ statusvar = IF driver = "piglet" THEN << 0 >> ELSE << >>
    /\ configured = FALSE
    /\ module_state = "idle"
    /\ thread_lock = FALSE
    /\ device = [storing |-> FALSE, spts |-> 0]
    /\ call = NoCall
    /\ sent = << >>
    /\ ret = NoRet
    /\ active_channels = {"X"}
    /\ sample_rate = RateTable[Len(RateTable)]
    /\ frame_size = MaxSamples
    /\ other = "idle"

\* the instrument takes one more point while its scan runs and its buffer has room
DeviceStores ==
    /\ driver # "none"
    /\ device.storing
    /\ device.spts < MaxSamples
    /\ device' = [device EXCEPT !.spts = @ + 1]
    /\ UNCHANGED <<driver, active_channels, sample_rate, frame_size, other, statusvar, configured, module_state, thread_lock, call, sent, ret>>
    /\ UNCHANGED <<sweepVars, guiVars>>

\* what the constraints object of on_activate holds: the channels, and the
\* limits of the frame size and of the sample rate (62.5 mHz and 512 Hz)
ChannelUnits(d) == IF d = "lock_in_SR830_x_only" THEN {"X"} ELSE {"X", "Y"}

FrameSizeLimits == << 1, MaxSamples >>

SampleRateLimits == << RateTable[1], RateTable[Len(RateTable)] >>

\* the arguments the callers pass
ChannelsAsked == {{}, {"X"}, {"X", "Y"}, {"Z"}, {"X", "Z"}}

FramesAsked == 0..(MaxSamples + 1)

RatesAsked == {0, 5, 9000}

\* qudi.util.helpers.in_range, which frame_size_in_range and
\* sample_rate_in_range of the constraints object return: the pair of "value
\* is within the limits" and the value clipped to them
in_range(value, limits) ==
    IF value > limits[2] THEN << FALSE, limits[2] >>
    ELSE IF value < limits[1] THEN << FALSE, limits[1] >>
    ELSE << TRUE, value >>

\* Python's "not x" for a tuple x: true for the empty tuple only
NotOfTuple(x) == x = << >>

Distance(a, b) == IF a >= b THEN a - b ELSE b - a

\* min(range(len(rates)), key=lambda i: abs(rates[i] - rate)): the first index
\* of the least distance
NearestRate(rate) ==
    CHOOSE k \in 1..Len(RateTable) :
        \A j \in 1..Len(RateTable) :
            \/ Distance(RateTable[k], rate) < Distance(RateTable[j], rate)
            \/ Distance(RateTable[k], rate) = Distance(RateTable[j], rate) /\ k <= j

\* set_sample_rate(rate): piglet.py lines 138-149, lock_in_SR830.py lines
\* 117-128, lock_in_SR830_x_only.py lines 110-121
SetSampleRate(rate) ==
    /\ driver # "none" /\ call.pc = "idle"
    /\ LockFree
    /\ IF NotOfTuple(in_range(rate, SampleRateLimits))
       THEN /\ Raises("set_sample_rate", "ValueError")
            /\ sent' = << >>
            /\ UNCHANGED <<sample_rate, device>>
       ELSE /\ Write(<< "SRAT" >>)
            /\ sample_rate' = RateTable[NearestRate(rate)]
            /\ Returns("set_sample_rate", << >>)
    /\ UNCHANGED <<driver, statusvar, configured, module_state, thread_lock, call,
                   active_channels, frame_size, other>>
    /\ UNCHANGED <<sweepVars, guiVars>>

\* set_frame_size(size): piglet.py lines 158-163, lock_in_SR830.py lines
\* 137-140, lock_in_SR830_x_only.py lines 129-132
SetFrameSize(size) ==
    /\ driver # "none" /\ call.pc = "idle"
    /\ IF NotOfTuple(in_range(size, FrameSizeLimits))
       THEN /\ Raises("set_frame_size", "ValueError")
            /\ UNCHANGED frame_size
       ELSE /\ frame_size' = size
            /\ Returns("set_frame_size", << >>)
    /\ sent' = << >>
    /\ UNCHANGED <<driver, statusvar, configured, module_state, thread_lock, device, call,
                   active_channels, sample_rate, other>>
    /\ UNCHANGED <<sweepVars, guiVars>>

\* set_active_channels(channels): piglet.py lines 151-156, lock_in_SR830.py
\* lines 130-135 (under the lock), lock_in_SR830_x_only.py lines 123-127
SetActiveChannels(channels) ==
    /\ driver # "none" /\ call.pc = "idle"
    /\ IF driver = "lock_in_SR830_x_only"
       THEN IF channels # {"X"}
            THEN /\ Raises("set_active_channels", "ValueError")
                 /\ UNCHANGED active_channels
            ELSE /\ active_channels' = {"X"}
                 /\ Returns("set_active_channels", << >>)
       ELSE /\ LockFree
            /\ IF \E ch \in channels : ch \notin ChannelUnits(driver)
               THEN /\ Raises("set_active_channels", "ValueError")
                    /\ UNCHANGED active_channels
               ELSE /\ active_channels' = channels
                    /\ Returns("set_active_channels", << >>)
    /\ sent' = << >>
    /\ UNCHANGED <<driver, statusvar, configured, module_state, thread_lock, device, call,
                   sample_rate, frame_size, other>>
    /\ UNCHANGED <<sweepVars, guiVars>>

\* configure: piglet.py lines 239-257 as far as the call of _update_scale
\* (set_sample_rate with the rate asked for, set_frame_size with the record
\* length clamped to the limits, _configured and statusvar), lock_in_SR830.py
\* lines 231-255 (self.pulsed is assigned nowhere: AttributeError at line 253)
Configure ==
    /\ IsFastCounter(driver) /\ call.pc = "idle"
    /\ IF driver = "piglet"
       THEN \E rate \in RatesAsked, record_samples \in FrameSizeLimits[1]..FrameSizeLimits[2] :
              IF NotOfTuple(in_range(rate, SampleRateLimits))
              THEN /\ Raises("configure", "ValueError")
                   /\ sent' = << >>
                   /\ UNCHANGED <<configured, statusvar, device, sample_rate, frame_size, call>>
              ELSE /\ Write(<< "SRAT" >>)
                   /\ sample_rate' = RateTable[NearestRate(rate)]
                   /\ frame_size' = record_samples
                   /\ configured' = TRUE
                   /\ statusvar' = << 1 >>
                   /\ call' = [op |-> "configure", pc |-> "scale", n |-> << >>]
                   /\ ret' = NoRet
       ELSE /\ statusvar' = << 1 >>
            /\ Raises("configure", "AttributeError")
            /\ sent' = << >>
            /\ UNCHANGED <<configured, device, sample_rate, frame_size, call>>
    /\ UNCHANGED <<driver, active_channels, other, module_state, thread_lock>>
    /\ UNCHANGED <<sweepVars, guiVars>>

\* _update_scale (piglet.py lines 206-232), called at the end of configure with
\* no lock taken: the query SENS? is written ...
UpdateScaleAsks ==
    /\ call.pc = "scale"
    /\ call' = [call EXCEPT !.pc = "scale_reply"]
    /\ sent' = Append(sent, "SENS?")
    /\ UNCHANGED <<driver, statusvar, configured, module_state, thread_lock, device, ret,
                   active_channels, sample_rate, frame_size, other>>
    /\ UNCHANGED <<sweepVars, guiVars>>

\* ... and its reply read, or its failure caught; configure returns
UpdateScaleReads ==
    /\ call.pc = "scale_reply"
    /\ call' = NoCall
    /\ Returns("configure", << >>)
    /\ UNCHANGED <<driver, statusvar, configured, module_state, thread_lock, device, sent,
                   active_channels, sample_rate, frame_size, other>>
    /\ UNCHANGED <<sweepVars, guiVars>>

\* start_measure: piglet.py lines 261-268, lock_in_SR830.py lines 257-263
\* (module_state.lock() raises when the module is locked already)
StartMeasure ==
    /\ IsFastCounter(driver) /\ call.pc = "idle"
    /\ IF driver = "piglet"
       THEN /\ IF ~configured
               THEN /\ Returns("start_measure", << -1 >>)
                    /\ sent' = << >>
                    /\ UNCHANGED <<statusvar, device>>
               ELSE /\ Write(StartCmds(driver))
                    /\ statusvar' = << 2 >>
                    /\ Returns("start_measure", << 0 >>)
            /\ UNCHANGED module_state
       ELSE /\ IF module_state = "locked"
               THEN /\ Raises("start_measure", "FysomError")
                    /\ UNCHANGED module_state
               ELSE /\ module_state' = "locked"
                    /\ Raises("start_measure", "AttributeError")
            /\ sent' = << >>
            /\ UNCHANGED <<statusvar, device>>
    /\ UNCHANGED <<driver, active_channels, sample_rate, frame_size, other, configured, thread_lock, call>>
    /\ UNCHANGED <<sweepVars, guiVars>>

\* stop_measure: piglet.py lines 270-273, lock_in_SR830.py lines 265-271
StopMeasure ==
    /\ IsFastCounter(driver) /\ call.pc = "idle"
    /\ IF driver = "piglet"
       THEN /\ Write(<< "PAUS" >>)
            /\ statusvar' = << 1 >>
            /\ Returns("stop_measure", << 0 >>)
       ELSE /\ IF module_state = "locked"
               THEN /\ Raises("stop_measure", "AttributeError")
                    /\ UNCHANGED statusvar
               ELSE /\ statusvar' = << 1 >>
                    /\ Returns("stop_measure", << 0 >>)
            /\ sent' = << >>
            /\ UNCHANGED device
    /\ UNCHANGED <<driver, active_channels, sample_rate, frame_size, other, configured, module_state, thread_lock, call>>
    /\ UNCHANGED <<sweepVars, guiVars>>

\* pause_measure: piglet.py lines 275-279, lock_in_SR830.py lines 273-281
PauseMeasure ==
    /\ IsFastCounter(driver) /\ call.pc = "idle"
    /\ IF driver = "piglet"
       THEN IF statusvar = << 2 >>
            THEN /\ Write(<< "PAUS" >>)
                 /\ statusvar' = << 3 >>
                 /\ Returns("pause_measure", << 0 >>)
            ELSE /\ Returns("pause_measure", << 0 >>)
                 /\ sent' = << >>
                 /\ UNCHANGED <<statusvar, device>>
       ELSE /\ IF module_state = "locked"
               THEN Raises("pause_measure", "AttributeError")
               ELSE Returns("pause_measure", << 0 >>)
            /\ sent' = << >>
            /\ UNCHANGED <<statusvar, device>>
    /\ UNCHANGED <<driver, active_channels, sample_rate, frame_size, other, configured, module_state, thread_lock, call>>
    /\ UNCHANGED <<sweepVars, guiVars>>

\* continue_measure: piglet.py lines 281-285, lock_in_SR830.py lines 283-291
ContinueMeasure ==
    /\ IsFastCounter(driver) /\ call.pc = "idle"
    /\ IF driver = "piglet"
       THEN IF statusvar = << 3 >>
            THEN /\ Write(StartCmds(driver))
                 /\ statusvar' = << 2 >>
                 /\ Returns("continue_measure", << 0 >>)
            ELSE /\ Returns("continue_measure", << 0 >>)
                 /\ sent' = << >>
                 /\ UNCHANGED <<statusvar, device>>
       ELSE /\ IF module_state = "locked"
               THEN Raises("continue_measure", "AttributeError")
               ELSE Returns("continue_measure", << 0 >>)
            /\ sent' = << >>
            /\ UNCHANGED <<statusvar, device>>
    /\ UNCHANGED <<driver, active_channels, sample_rate, frame_size, other, configured, module_state, thread_lock, call>>
    /\ UNCHANGED <<sweepVars, guiVars>>

\* get_status: return self.statusvar, an attribute lock_in_SR830.py assigns in
\* configure and the measure calls only
GetStatus ==
    /\ IsFastCounter(driver) /\ call.pc = "idle"
    /\ IF statusvar = << >>
       THEN Raises("get_status", "AttributeError")
       ELSE Returns("get_status", statusvar)
    /\ sent' = << >>
    /\ UNCHANGED <<driver, active_channels, sample_rate, frame_size, other, statusvar, configured, module_state, thread_lock, device, call>>
    /\ UNCHANGED <<sweepVars, guiVars>>

\* get_buffered_samples(number_of_samples), as far as "with self._thread_lock:"
\* and the test of line 179; n = << >> is None
GetBufferedSamples ==
    /\ driver # "none" /\ call.pc = "idle"
    /\ LockFree
    /\ thread_lock' = TRUE
    /\ \E n \in {<< >>} \cup {<< k >> : k \in (-1)..MaxSamples} :
         call' = [op |-> "get_buffered_samples",
                  pc |-> IF n = << >> THEN "count" ELSE "read", n |-> n]
    /\ sent' = << >>
    /\ ret' = NoRet
    /\ UNCHANGED <<driver, active_channels, sample_rate, frame_size, other, statusvar, configured, module_state, device>>
    /\ UNCHANGED <<sweepVars, guiVars>>

\* number_of_samples = self.samples_in_buffer: the property's
\* "with self._thread_lock:" waits until the lock is free
SamplesInBufferInside ==
    /\ call.pc \in {"count", "waiting"}
    /\ IF thread_lock
       THEN call' = [call EXCEPT !.pc = "waiting"]
       ELSE call' = [call EXCEPT !.pc = "read", !.n = << device.spts >>]
    /\ UNCHANGED <<driver, active_channels, sample_rate, frame_size, other, statusvar, configured, module_state, thread_lock, device, sent, ret>>
    /\ UNCHANGED <<sweepVars, guiVars>>

\* the number of values of one channel the call hands back for n asked:
\* lock_in_SR830.py drops the last parsed value (values[:-1])
SamplesReturned(d, n) ==
    IF n <= 0 THEN {0}
    ELSE IF d = "lock_in_SR830" THEN {n - 1, n} ELSE {n}

\* the keys of the mapping the call hands back: for no samples asked the
\* active channels (X in lock_in_SR830_x_only.py); else piglet.py picks the
\* active channels out of X and Y, lock_in_SR830.py returns both X and Y and
\* lock_in_SR830_x_only.py returns X
KeysReturned(d, n) ==
    IF d = "lock_in_SR830_x_only" THEN {"X"}
    ELSE IF n <= 0 THEN active_channels
    ELSE IF d = "piglet" THEN active_channels \cap {"X", "Y"}
    ELSE {"X", "Y"}

\* the rest of get_buffered_samples: the reads, the return, the lock released
ReadSamples ==
    /\ call.pc = "read"
    /\ \E k \in SamplesReturned(driver, call.n[1]) :
         ret' = [op |-> call.op, val |-> << k >>, exc |-> "none",
                 keys |-> KeysReturned(driver, call.n[1])]
    /\ thread_lock' = FALSE
    /\ call' = NoCall
    /\ UNCHANGED <<driver, active_channels, sample_rate, frame_size, other, statusvar, configured, module_state, device, sent>>
    /\ UNCHANGED <<sweepVars, guiVars>>

\* acquire_frame(frame_size): start_buffered_acquisition
AcquireFrame ==
    /\ driver # "none" /\ call.pc = "idle"
    /\ \E f \in 1..MaxSamples :
         call' = [op |-> "acquire_frame", pc |-> "wait", n |-> << f >>]
    /\ Write(StartCmds(driver))
    /\ ret' = NoRet
    /\ UNCHANGED <<driver, active_channels, sample_rate, frame_size, other, statusvar, configured, module_state, thread_lock>>
    /\ UNCHANGED <<sweepVars, guiVars>>

\* while self.samples_in_buffer < frame_size: sleep; then
\* stop_buffered_acquisition (not in lock_in_SR830_x_only.py) and
\* get_buffered_samples(frame_size) as far as its lock
WaitForFrame ==
    /\ call.pc = "wait"
    /\ LockFree
    /\ IF device.spts < call.n[1]
       THEN UNCHANGED <<call, device, sent, thread_lock>>
       ELSE /\ IF driver = "lock_in_SR830_x_only"
               THEN UNCHANGED <<device, sent>>
               ELSE /\ device' = DeviceAfter(device, "PAUS")
                    /\ sent' = Append(sent, "PAUS")
            /\ thread_lock' = TRUE
            /\ call' = [call EXCEPT !.pc = "read"]
    /\ UNCHANGED <<driver, active_channels, sample_rate, frame_size, other, statusvar, configured, module_state, ret>>
    /\ UNCHANGED <<sweepVars, guiVars>>

\* get_data_trace: piglet.py lines 290-300 as far as the wait loop (an
\* unconfigured counter returns the empty array at once), lock_in_SR830.py
\* lines 301-315 (self.pulsed.getData(): AttributeError)
GetDataTrace ==
    /\ IsFastCounter(driver) /\ call.pc = "idle"
    /\ sent' = << >>
    /\ IF driver = "piglet"
       THEN IF ~configured
            THEN /\ Returns("get_data_trace", << 0 >>)
                 /\ UNCHANGED call
            ELSE /\ call' = [op |-> "get_data_trace", pc |-> "trace_wait",
                             n |-> << frame_size >>]
                 /\ ret' = NoRet
       ELSE /\ Raises("get_data_trace", "AttributeError")
            /\ UNCHANGED call
    /\ UNCHANGED <<driver, statusvar, configured, module_state, thread_lock, device,
                   active_channels, sample_rate, frame_size, other>>
    /\ UNCHANGED <<sweepVars, guiVars>>

\* the loop of lines 297-300 is left once samples_in_buffer has answered
\* _record_samples or more, or once timeout_s has passed (a query that fails
\* counts as 0); get_buffered_samples(self._record_samples) takes the lock
TraceWaitEnds ==
    /\ call.pc = "trace_wait"
    /\ LockFree
    /\ \E timed_out \in BOOLEAN : timed_out \/ device.spts >= call.n[1]
    /\ thread_lock' = TRUE
    /\ call' = [call EXCEPT !.pc = "trace_read"]
    /\ UNCHANGED <<driver, statusvar, configured, module_state, device, sent, ret,
                   active_channels, sample_rate, frame_size, other>>
    /\ UNCHANGED <<sweepVars, guiVars>>

\* the values get_data_trace makes of k values read: padded with zeros or cut
\* to _record_samples entries (lines 303-313)
TraceLength(k, record_samples) ==
    IF k < record_samples THEN k + (record_samples - k)
    ELSE IF k > record_samples THEN record_samples ELSE k

\* lines 302-324: for a count above 0 the TRCA? queries of
\* get_buffered_samples, which the instrument answers or not (VisaIOError,
\* caught nowhere); the lock is released either way
TraceRead ==
    /\ call.pc = "trace_read"
    /\ \/ \E k \in 0..MaxSamples :
            Returns("get_data_trace", << TraceLength(k, call.n[1]) >>)
       \/ /\ call.n[1] > 0
          /\ Raises("get_data_trace", "VisaIOError")
    /\ thread_lock' = FALSE
    /\ call' = NoCall
    /\ UNCHANGED <<driver, statusvar, configured, module_state, device, sent,
                   active_channels, sample_rate, frame_size, other>>
    /\ UNCHANGED <<sweepVars, guiVars>>

\* the second thread enters a call that takes the lock and writes a query
\* (samples_in_buffer, get_buffered_samples)
OtherAsks ==
    /\ driver # "none"
    /\ LockFree
    /\ other' = "asked"
    /\ UNCHANGED <<driver, statusvar, configured, module_state, thread_lock, device, call,
                   sent, ret, active_channels, sample_rate, frame_size>>
    /\ UNCHANGED <<sweepVars, guiVars>>

\* it reads the reply and leaves the with block
OtherReads ==
    /\ other = "asked"
    /\ other' = "idle"
    /\ UNCHANGED <<driver, statusvar, configured, module_state, thread_lock, device, call,
                   sent, ret, active_channels, sample_rate, frame_size>>
    /\ UNCHANGED <<sweepVars, guiVars>>

NextDriver ==
    \/ OtherAsks \/ OtherReads
    \/ DeviceStores
    \/ \E rate \in RatesAsked : SetSampleRate(rate)
    \/ \E size \in FramesAsked : SetFrameSize(size)
    \/ \E channels \in ChannelsAsked : SetActiveChannels(channels)
    \/ Configure \/ UpdateScaleAsks \/ UpdateScaleReads
    \/ StartMeasure \/ StopMeasure \/ PauseMeasure \/ ContinueMeasure
    \/ GetStatus
    \/ GetDataTrace \/ TraceWaitEnds \/ TraceRead
    \/ GetBufferedSamples \/ SamplesInBufferInside \/ ReadSamples
    \/ AcquireFrame \/ WaitForFrame

SpecDriver == InitDriver /\ [][NextDriver]_vars

\* ------------------------------------------------------------------ properties of the lock-in modules

\* C24: what get_status returns is 0 exactly when no configure call has
\* succeeded (piglet sets _configured at the end of a successful configure),
\* and one of 1, 2, 3 otherwise.
C24_StatusZeroIffUnconfigured ==
    ret.op = "get_status" =>
        /\ ret.exc = "none"
        /\ ret.val \in {<< 0 >>, << 1 >>, << 2 >>, << 3 >>}
        /\ ret.val = << 0 >> <=> ~configured

\* once configure has succeeded the status is never 0 again
C24_ConfiguredMeansNonZero ==
    configured => statusvar \in {<< 1 >>, << 2 >>, << 3 >>}

C25_PigletPauseOnlyWhenRunning ==
    [][driver = "piglet" =>
        /\ PauseMeasure =>
            IF statusvar = << 2 >>
            THEN statusvar' = << 3 >> /\ sent' = << "PAUS" >> /\ ~device'.storing
            ELSE statusvar' = statusvar /\ sent' = << >> /\ ret'.exc = "none"
        /\ ContinueMeasure =>
            IF statusvar = << 3 >>
            THEN statusvar' = << 2 >> /\ device'.storing
            ELSE statusvar' = statusvar /\ sent' = << >> /\ ret'.exc = "none"]_vars

\* C26: get_buffered_samples with no sample count never waits for the lock
\* that it holds itself.
C26_NeverWaitsForOwnLock ==
    ~(call.op = "get_buffered_samples" /\ call.pc = "waiting" /\ thread_lock)

\* C27: while acquire_frame waits for its frame the instrument is storing or
\* the frame is there already, and what acquire_frame returns is frame_size
\* values a channel.
C27_FrameArrives ==
    /\ (call.op = "acquire_frame" /\ call.pc = "wait") =>
            device.storing \/ device.spts >= call.n[1]
    /\ \A f \in 1..MaxSamples :
         (call.op = "acquire_frame" /\ call.pc = "read" /\ call.n = << f >>) =>
            SamplesReturned(driver, f) = {f}

\* the wait of piglet.py and lock_in_SR830.py does end
C27_StartedWaitEnds ==
    (driver # "lock_in_SR830_x_only" /\ call.op = "acquire_frame" /\ call.pc = "wait") =>
        device.storing \/ device.spts >= call.n[1]

\* ------------------------------------------------------------------ the shared axes

\* the worker of tab t is inside line.set_data, ax.relim or ax.autoscale
WorkerInAxes(t) == thread[t].pc = "plot"

\* C31: the interface thread is never inside canvas.draw() of a tab while the
\* tab's worker is inside its calls on the same axes.
C31_AxesNeverSharedAtOnce ==
    \A t \in AllTabs : ~(drawing = t /\ WorkerInAxes(t))

\* ------------------------------------------------------------------ the bus

\* the caller has written a query and not read its reply
AwaitsReply == call.pc = "scale_reply"

\* C32: whoever has a query on the way to the device holds _thread_lock, so
\* that no two threads have one on the way at the same time.
C32_EveryQueryUnderTheLock ==
    /\ AwaitsReply => thread_lock
    /\ ~(AwaitsReply /\ other = "asked")

\* ------------------------------------------------------------------ the channels of a frame

\* C33: the mapping get_buffered_samples returns has the active channels as
\* its keys, whatever the count asked for.
C33_KeysAreTheActiveChannels ==
    ret.op = "get_buffered_samples" => ret.keys = active_channels

\* the same of piglet.py and lock_in_SR830_x_only.py
C33_KeysAreActiveButInLockInSR830 ==
    (driver # "lock_in_SR830" /\ ret.op = "get_buffered_samples") =>
        ret.keys = active_channels

\* ------------------------------------------------------------------ rejected settings

Outside(value, limits) == value < limits[1] \/ value > limits[2]

Rejected(op) == ret'.op = op /\ ret'.exc = "ValueError" /\ sent' = << >>

SettingsKept ==
    /\ active_channels' = active_channels
    /\ sample_rate' = sample_rate
    /\ frame_size' = frame_size
    /\ device' = device

\* the stored rate is a rate of the table none of whose rates is nearer to rate
IsNearestRate(stored, rate) ==
    /\ stored \in Range(RateTable)
    /\ \A j \in 1..Len(RateTable) : Distance(stored, rate) <= Distance(RateTable[j], rate)

\* C34: set_active_channels with an unknown channel, set_sample_rate with a
\* rate outside the limits and set_frame_size with a size outside the limits
\* raise ValueError, write nothing and leave the channels, the rate and the
\* frame size as they were; a set_sample_rate that returns has stored the
\* nearest rate of the table.
C34_RejectedCallChangesNothing ==
    [][/\ \A channels \in ChannelsAsked :
            (SetActiveChannels(channels) /\ ~(channels \subseteq ChannelUnits(driver))) =>
                Rejected("set_active_channels") /\ SettingsKept
       /\ \A rate \in RatesAsked :
            SetSampleRate(rate) =>
                IF Outside(rate, SampleRateLimits)
                THEN Rejected("set_sample_rate") /\ SettingsKept
                ELSE IsNearestRate(sample_rate', rate)
       /\ \A size \in FramesAsked :
            (SetFrameSize(size) /\ Outside(size, FrameSizeLimits)) =>
                Rejected("set_frame_size") /\ SettingsKept]_vars

\* what does hold: an unknown channel is rejected with everything kept, a call
\* that raises has changed nothing, and the rate stored is the nearest of the
\* table
C34_UnknownChannelRejected ==
    [][\A channels \in ChannelsAsked :
            (SetActiveChannels(channels) /\ ~(channels \subseteq ChannelUnits(driver))) =>
                Rejected("set_active_channels") /\ SettingsKept]_vars

C34_RaisingCallChangesNothing ==
    [][(ret'.exc = "ValueError" /\ ret' # ret) => SettingsKept /\ sent' = << >>]_vars

C34_StoredRateIsNearest ==
    [][\A rate \in RatesAsked :
            SetSampleRate(rate) => IsNearestRate(sample_rate', rate)]_vars

\* the frame size is within the limits of the constraints
C34_FrameSizeWithinLimits == ~Outside(frame_size, FrameSizeLimits)

\* ------------------------------------------------------------------ the data trace

\* C35: get_data_trace of piglet.py returns, and what it returns has _record_samples
\* entries on a configured counter and none on an unconfigured one, for which
\* nothing was written to the device.
C35_TraceHasRecordSamples ==
    (driver = "piglet" /\ ret.op = "get_data_trace") =>
        /\ ret.exc = "none"
        /\ ret.val = IF configured THEN << frame_size >> ELSE << 0 >>
        /\ sent = << >>

\* the same for the calls that do return
C35_ReturnedTraceHasRecordSamples ==
    (ret.op = "get_data_trace" /\ ret.exc = "none") =>
        /\ ret.val = IF configured THEN << frame_size >> ELSE << 0 >>
        /\ sent = << >>

\* ------------------------------------------------------------------ pause and continue

\* C36: continue_measure of a paused measurement restarts the acquisition and
\* leaves the points the instrument has stored in its buffer.
C36_ContinueKeepsTheBuffer ==
    [][(ContinueMeasure /\ statusvar = << 3 >>) =>
            /\ device'.storing
            /\ device'.spts = device.spts]_vars

\* pause_measure does leave them there
C36_PauseKeepsTheBuffer ==
    [][(PauseMeasure /\ statusvar = << 2 >>) =>
            /\ ~device'.storing
            /\ device'.spts = device.spts]_vars

====
